---- MODULE Spec2Model ----
(***************************************************************************)
(* fnorm: filename normalization (src/src/normalize.rs) and the rename     *)
(* protocol that applies it to a directory (src/src/lib.rs).               *)
(*                                                                         *)
(* A string is a sequence of characters; a character is a one-token TLA+   *)
(* string.  Non-ASCII characters are named tokens ("e_acute" is U+00E9).   *)
(* A path is the file-name component of a path inside one parent           *)
(* directory; DotDot is a path that terminates in "..".                    *)
(***************************************************************************)
EXTENDS Integers, Sequences, FiniteSets, TLC

(***************************************************************************)
(* Characters                                                              *)
(***************************************************************************)
AsciiLower ==
    {"a","b","c","d","e","f","g","h","i","j","k","l","m",
     "n","o","p","q","r","s","t","u","v","w","x","y","z"}

AsciiUpper ==
    {"A","B","C","D","E","F","G","H","I","J","K","L","M",
     "N","O","P","Q","R","S","T","U","V","W","X","Y","Z"}

AsciiDigit == {"0","1","2","3","4","5","6","7","8","9"}

AsciiPunct == {" ", ".", "-", "_", "&", "/", "@", "%", "#", "'", "(", ")"}

\* Unicode White_Space characters, the set str::trim removes.
WhiteSpace == {" ", "TAB", "NBSP"}

IsAscii(c) == c \in AsciiLower \cup AsciiUpper \cup AsciiDigit \cup AsciiPunct \cup {"TAB"}

\* ASCII upper-case letter -> lower-case letter.
AsciiLowerOf ==
    [c \in AsciiUpper |->
        CASE c = "A" -> "a" [] c = "B" -> "b" [] c = "C" -> "c" [] c = "D" -> "d"
          [] c = "E" -> "e" [] c = "F" -> "f" [] c = "G" -> "g" [] c = "H" -> "h"
          [] c = "I" -> "i" [] c = "J" -> "j" [] c = "K" -> "k" [] c = "L" -> "l"
          [] c = "M" -> "m" [] c = "N" -> "n" [] c = "O" -> "o" [] c = "P" -> "p"
          [] c = "Q" -> "q" [] c = "R" -> "r" [] c = "S" -> "s" [] c = "T" -> "t"
          [] c = "U" -> "u" [] c = "V" -> "v" [] c = "W" -> "w" [] c = "X" -> "x"
          [] c = "Y" -> "y" [] c = "Z" -> "z"]

\* char::to_lowercase: the lower-case expansion of one character, a sequence
\* (U+0130 expands to two characters).
char_to_lowercase(c) ==
    IF c \in AsciiUpper THEN <<AsciiLowerOf[c]>>
    ELSE IF c = "E_ACUTE" THEN <<"e_acute">>
    ELSE IF c = "O_SLASH" THEN <<"o_slash">>
    ELSE IF c = "I_DOT" THEN <<"i", "COMB_DOT">>
    ELSE <<c>>

\* UTF-8 width of a character in bytes (str::len and str::rfind count bytes).
len_utf8(c) ==
    IF IsAscii(c) THEN 1
    ELSE IF c \in {"en_dash", "em_dash", "lsquo", "rsquo", "ldquo", "rdquo", "CJK"} THEN 3
    ELSE 2

(***************************************************************************)
(* Strings                                                                 *)
(***************************************************************************)
RECURSIVE Concat(_)
\* The concatenation of a sequence of strings.
Concat(ss) == IF ss = <<>> THEN <<>> ELSE Head(ss) \o Concat(Tail(ss))

\* str::to_lowercase
to_lowercase(s) == Concat([i \in 1..Len(s) |-> char_to_lowercase(s[i])])

\* str::len: the length in bytes.
byte_len(s) == LET w[i \in 0..Len(s)] == IF i = 0 THEN 0 ELSE w[i-1] + len_utf8(s[i])
               IN  w[Len(s)]

\* Byte offset at which character i of s starts.
byte_offset(s, i) == byte_len(SubSeq(s, 1, i - 1))

\* &s[lo..hi]: the characters whose bytes lie in [lo, hi).
byte_slice(s, lo, hi) ==
    LET keep == {i \in 1..Len(s) : byte_offset(s, i) >= lo /\ byte_offset(s, i) < hi}
    IN  IF keep = {} THEN <<>>
        ELSE SubSeq(s, CHOOSE i \in keep : \A j \in keep : i <= j,
                       CHOOSE i \in keep : \A j \in keep : i >= j)

\* str::trim_start_matches / trim_end_matches / trim_matches over a character set.
trim_start_set(s, cs) ==
    LET keep == {i \in 1..Len(s) : s[i] \notin cs}
    IN  IF keep = {} THEN <<>>
        ELSE SubSeq(s, CHOOSE i \in keep : \A j \in keep : i <= j, Len(s))

trim_end_set(s, cs) ==
    LET keep == {i \in 1..Len(s) : s[i] \notin cs}
    IN  IF keep = {} THEN <<>>
        ELSE SubSeq(s, 1, CHOOSE i \in keep : \A j \in keep : i >= j)

trim_set(s, cs) == trim_end_set(trim_start_set(s, cs), cs)

\* str::trim
trim(s) == trim_set(s, WhiteSpace)

\* str::rfind('.'): the byte offset of the last dot, or -1 for None.
rfind_dot(s) ==
    LET dots == {i \in 1..Len(s) : s[i] = "."}
    IN  IF dots = {} THEN -1
        ELSE byte_offset(s, CHOOSE i \in dots : \A j \in dots : i >= j)

\* str::find('.'): the byte offset of the first dot, or -1 for None.
find_dot(s) ==
    LET dots == {i \in 1..Len(s) : s[i] = "."}
    IN  IF dots = {} THEN -1
        ELSE byte_offset(s, CHOOSE i \in dots : \A j \in dots : i <= j)

(***************************************************************************)
(* NormalizationConfig                                                     *)
(***************************************************************************)
DefaultSpecialTokens ==
    [c \in {"/", "&", "@", "%"} |->
        CASE c = "/" -> <<"-","o","r","-">>
          [] c = "&" -> <<"-","a","n","d","-">>
          [] c = "@" -> <<"-","a","t","-">>
          [] c = "%" -> <<"-","p","e","r","c","e","n","t","-">>]

DefaultTransliterations ==
    [c \in {"a_acute","a_grave","a_circ","a_uml","a_tilde","a_ring",
            "e_acute","e_grave","e_circ","e_uml",
            "i_acute","i_grave","i_circ","i_uml",
            "o_acute","o_grave","o_circ","o_uml","o_tilde","o_slash",
            "u_acute","u_grave","u_circ","u_uml",
            "n_tilde","c_cedil","ae_lig","oe_lig","sharp_s"} |->
        CASE c \in {"a_acute","a_grave","a_circ","a_uml","a_tilde","a_ring"} -> <<"a">>
          [] c \in {"e_acute","e_grave","e_circ","e_uml"} -> <<"e">>
          [] c \in {"i_acute","i_grave","i_circ","i_uml"} -> <<"i">>
          [] c \in {"o_acute","o_grave","o_circ","o_uml","o_tilde","o_slash"} -> <<"o">>
          [] c \in {"u_acute","u_grave","u_circ","u_uml"} -> <<"u">>
          [] c = "n_tilde" -> <<"n">>
          [] c = "c_cedil" -> <<"c">>
          [] c = "ae_lig" -> <<"a","e">>
          [] c = "oe_lig" -> <<"o","e">>
          [] c = "sharp_s" -> <<"s","s">>]

\* NormalizationConfig::default()
DefaultConfig ==
    [special_tokens |-> DefaultSpecialTokens,
     transliterations |-> DefaultTransliterations,
     lowercase |-> TRUE,
     lowercase_extension |-> TRUE]

(***************************************************************************)
(* The normalization pipeline                                              *)
(***************************************************************************)
\* split_extension with str::find in place of str::rfind.
split_extension_first_dot(filename) ==
    LET dot_pos == find_dot(filename)
    IN  IF dot_pos # -1
        THEN IF dot_pos = 0
             THEN <<<<>>, byte_slice(filename, 1, byte_len(filename))>>
             ELSE IF dot_pos = byte_len(filename) - 1
             THEN <<byte_slice(filename, 0, dot_pos), <<>>>>
             ELSE <<byte_slice(filename, 0, dot_pos),
                    byte_slice(filename, dot_pos + 1, byte_len(filename))>>
        ELSE <<filename, <<>>>>

\* split_extension: <<base_name, extension>>.
split_extension(filename) ==
    LET dot_pos == rfind_dot(filename)
    IN  IF dot_pos # -1
        THEN IF dot_pos = 0
             THEN <<<<>>, byte_slice(filename, 1, byte_len(filename))>>
             ELSE IF dot_pos = byte_len(filename) - 1
             THEN <<byte_slice(filename, 0, dot_pos), <<>>>>
             ELSE <<byte_slice(filename, 0, dot_pos),
                    byte_slice(filename, dot_pos + 1, byte_len(filename))>>
        ELSE <<filename, <<>>>>

RECURSIVE cleanup_from(_, _, _)
\* The loop of cleanup_hyphens from character i on, prev_was_hyphen as given.
cleanup_from(text, i, prev_was_hyphen) ==
    IF i > Len(text) THEN <<>>
    ELSE IF text[i] = "-"
         THEN IF ~prev_was_hyphen
              THEN <<text[i]>> \o cleanup_from(text, i + 1, TRUE)
              ELSE cleanup_from(text, i + 1, prev_was_hyphen)
         ELSE <<text[i]>> \o cleanup_from(text, i + 1, FALSE)

\* cleanup_hyphens
cleanup_hyphens(text) == cleanup_from(text, 1, FALSE)

\* emit_char looking a character up in transliterations before special_tokens.
emit_char_transliterations_first(lower, config) ==
    IF lower \in DOMAIN config.transliterations
    THEN config.transliterations[lower]
    ELSE IF lower \in DOMAIN config.special_tokens
    THEN config.special_tokens[lower]
    ELSE IF lower \in {" ", "en_dash", "em_dash", "lsquo", "rsquo", "ldquo", "rdquo"}
         \/ ~(\/ IF config.lowercase THEN lower \in AsciiLower
                  ELSE lower \in AsciiLower \cup AsciiUpper
              \/ lower \in AsciiDigit \cup {"-", "_", "."})
    THEN <<"-">>
    ELSE <<lower>>

\* The body of the inner loop of normalize_base: what one case-folded
\* character appends to `processed`.
emit_char(lower, config) ==
    IF lower \in DOMAIN config.special_tokens
    THEN config.special_tokens[lower]
    ELSE IF lower \in DOMAIN config.transliterations
    THEN config.transliterations[lower]
    ELSE IF lower \in {" ", "en_dash", "em_dash", "lsquo", "rsquo", "ldquo", "rdquo"}
    THEN <<"-">>
    ELSE LET is_allowed_letter ==
                 IF config.lowercase THEN lower \in AsciiLower
                 ELSE lower \in AsciiLower \cup AsciiUpper
         IN  IF is_allowed_letter \/ lower \in AsciiDigit
                \/ lower = "-" \/ lower = "_" \/ lower = "."
             THEN <<lower>>
             ELSE <<"-">>

\* The loops of normalize_base: each character of the trimmed base, case
\* folded when lowercase is on, with what it appends to `processed`.
emissions(trimmed, config) ==
    LET lowered == IF config.lowercase THEN to_lowercase(trimmed) ELSE trimmed
    IN  [i \in 1..Len(lowered) |->
            [ch |-> lowered[i], out |-> emit_char(lowered[i], config)]]

\* The outer loop of normalize_base: `processed` for the trimmed base.
process_chars(trimmed, config) ==
    LET steps == emissions(trimmed, config)
    IN  Concat([i \in 1..Len(steps) |-> steps[i].out])

\* normalize_base without the final trim_start_matches('-').
normalize_base_keep_leading(base_name, config) ==
    LET trimmed == trim_set(trim(base_name), {"."})
    IN  IF trimmed = <<>> THEN <<>>
        ELSE cleanup_hyphens(process_chars(trimmed, config))

\* normalize_base
normalize_base(base_name, config) ==
    LET trimmed == trim_set(trim(base_name), {"."})
    IN  IF trimmed = <<>> THEN <<>>
        ELSE LET cleaned == cleanup_hyphens(process_chars(trimmed, config))
             IN  trim_start_set(cleaned, {"-"})

\* normalize_with_config
normalize_with_config(filename, config) ==
    IF filename = <<>> THEN <<>>
    ELSE LET parts == split_extension(trim(filename))
             base == normalize_base(parts[1], config)
             normalized_extension ==
                 IF config.lowercase_extension THEN to_lowercase(parts[2])
                 ELSE parts[2]
         IN  IF normalized_extension = <<>> THEN base
             ELSE base \o <<".">> \o normalized_extension

\* normalize: the default configuration.
normalize(filename) == normalize_with_config(filename, DefaultConfig)

(***************************************************************************)
(* NormalizationConfig from overrides                                      *)
(***************************************************************************)
\* Code points of the characters used in override keys.
code_point(c) ==
    CASE c = "&" -> 38
      [] c = "a" -> 97
      [] c = "b" -> 98
      [] c = "o_slash" -> 248

\* The order of String keys in a BTreeMap: byte-wise lexicographic, which
\* for UTF-8 is the order of the code points.
key_less(a, b) ==
    \E i \in 1..(Len(a) + 1) :
        /\ i <= Len(b)
        /\ \A j \in 1..(i - 1) : a[j] = b[j]
        /\ i <= Len(a) => code_point(a[i]) < code_point(b[i])

\* The keys of a BTreeMap in iteration order.
RECURSIVE sorted_keys(_)
sorted_keys(S) ==
    IF S = {} THEN <<>>
    ELSE LET least == CHOOSE k \in S : \A o \in S \ {k} : key_less(k, o)
         IN  <<least>> \o sorted_keys(S \ {least})

\* ConfigError::InvalidKey as the Err of a Result: there is no configuration.
InvalidKey(section, key) == [ok |-> FALSE, section |-> section, key |-> key]

\* char_from_key taking the first character of any non-empty key.
char_from_key_first_char(section, key) ==
    IF Len(key) >= 1 THEN [ok |-> TRUE, ch |-> key[1]]
    ELSE InvalidKey(section, key)

\* ConfigError::char_from_key
char_from_key(section, key) ==
    IF Len(key) = 1 THEN [ok |-> TRUE, ch |-> key[1]]
    ELSE InvalidKey(section, key)

\* One of the two for loops of apply_overrides, from position i of the
\* sorted keys: each key is converted and its value inserted in the table;
\* the first key that fails ends apply_overrides with its error.
RECURSIVE insert_overrides(_, _, _, _, _)
insert_overrides(table, section, map, keys, i) ==
    IF i > Len(keys) THEN [ok |-> TRUE, table |-> table]
    ELSE LET r == char_from_key(section, keys[i])
         IN  IF ~r.ok THEN r
             ELSE insert_overrides(
                      [c \in DOMAIN table \cup {r.ch} |->
                          IF c = r.ch THEN map[keys[i]] ELSE table[c]],
                      section, map, keys, i + 1)

\* NormalizationConfig::apply_overrides.  An Option is the empty set (None)
\* or a set of one value (Some).
apply_overrides(ov) ==
    LET config == DefaultConfig
        st == insert_overrides(config.special_tokens, "special_tokens",
                               ov.special_tokens,
                               sorted_keys(DOMAIN ov.special_tokens), 1)
        tr == insert_overrides(config.transliterations, "transliterations",
                               ov.transliterations,
                               sorted_keys(DOMAIN ov.transliterations), 1)
    IN  IF ~st.ok THEN st
        ELSE IF ~tr.ok THEN tr
        ELSE [ok |-> TRUE,
              config |->
                [special_tokens |-> st.table,
                 transliterations |-> tr.table,
                 lowercase |->
                     IF ov.lowercase = {} THEN config.lowercase
                     ELSE CHOOSE b \in ov.lowercase : TRUE,
                 lowercase_extension |->
                     IF ov.lowercase_extension = {} THEN config.lowercase_extension
                     ELSE CHOOSE b \in ov.lowercase_extension : TRUE]]

(***************************************************************************)
(* Paths and the directory                                                 *)
(***************************************************************************)
\* The suffix of the temporary name, format!("{}.fnorm-tmp", old_name).
FnormTmp == <<".", "f", "n", "o", "r", "m", "-", "t", "m", "p">>

\* A path that terminates in "..": Path::file_name gives None for it.
DotDot == <<".", ".">>

\* A path variable that holds nothing yet.
NoPath == <<"?">>

\* The empty path "", which names nothing.
EmptyPath == <<"<empty>">>

\* set_file_name giving the parent directory for every path.
set_file_name_always_parent(hp, name) ==
    IF name # <<>> THEN name ELSE <<>>

\* PathBuf::set_file_name(name) on the input path: the sibling with that file
\* name.  With the empty name the result is the parent directory itself
\* ("dir/"), written <<>>, or the empty path when the input path is a bare
\* file name with no parent component.
set_file_name(hp, name) ==
    IF name # <<>> THEN name
    ELSE IF hp THEN <<>> ELSE EmptyPath

\* temp_name built from the new name instead of the old one.
temp_name_from_new(old_name, new_name) == new_name \o FnormTmp

\* rename_case_only: the file name of temp_path.
temp_name(old_name, new_name) == old_name \o FnormTmp

\* A directory maps each stored name to its entry: the entry's identity,
\* whether it is a directory, and the names of its children.  Every entry is
\* stored under one name (no hard links).

\* Case folding of the filesystem on a case-insensitive volume.
Fold(name) == to_lowercase(name)

\* The stored names `name` resolves to (none, or one).
Resolve(d, ci, name) ==
    {n \in DOMAIN d : IF ci THEN Fold(n) = Fold(name) ELSE n = name}

\* fs::metadata(path).is_ok() / Path::exists: the empty file name is the
\* parent directory itself, which exists, as does "..".
PathExists(d, ci, name) ==
    name = <<>> \/ name = DotDot \/ Resolve(d, ci, name) # {}

\* Whether rename(from, to) can succeed: `from` exists, and an entry at `to`
\* is replaced only by one of its kind (a directory only when empty).
RenameAllowed(d, ci, from, to) ==
    /\ Resolve(d, ci, from) # {}
    /\ to \notin {<<>>, DotDot, EmptyPath}
    /\ \A s \in Resolve(d, ci, from) : \A t \in Resolve(d, ci, to) :
          \/ t = s
          \/ ~d[s].is_dir /\ ~d[t].is_dir
          \/ d[s].is_dir /\ d[t].is_dir /\ d[t].children = {}

\* The directory after a successful rename(from, to): the entry leaves its
\* name, any entry at `to` is replaced, and the entry is stored as `to`.
RenameResult(d, ci, from, to) ==
    LET s == CHOOSE n \in Resolve(d, ci, from) : TRUE
        gone == Resolve(d, ci, from) \cup Resolve(d, ci, to)
    IN  [n \in (DOMAIN d \ gone) \cup {to} |-> IF n = to THEN d[s] ELSE d[n]]

(***************************************************************************)
(* FnormError and the results of process_file                              *)
(***************************************************************************)
Ok == [kind |-> "Ok", path |-> NoPath, from |-> NoPath, to |-> NoPath]

FileNotFound(p) == [kind |-> "FileNotFound", path |-> p, from |-> NoPath, to |-> NoPath]

TargetExists(p) == [kind |-> "TargetExists", path |-> p, from |-> NoPath, to |-> NoPath]

RenameError(f, t) == [kind |-> "RenameError", path |-> NoPath, from |-> f, to |-> t]

\* The error the binary's process_file returns for a directory.
NotAFile(p) == [kind |-> "NotAFile", path |-> p, from |-> NoPath, to |-> NoPath]

(***************************************************************************)
(* State                                                                   *)
(***************************************************************************)
VARIABLES
    dir,              \* the parent directory: stored name -> entry
    caseInsensitive,  \* whether the volume folds case
    has_parent,       \* whether the paths of cli.files have a parent component
    files,            \* cli.files
    dry_run,          \* cli.dry_run
    idx,              \* run: position of the loop in cli.files
    errors,           \* run: the RunError entries pushed so far
    result,           \* run: its return value, "none" until it returns
    pc,               \* the next step of run / process_file / rename_case_only
    filename,         \* process_file: local
    normalized,       \* process_file: local
    target_path,      \* process_file: local (file name of the sibling path)
    temp_path,        \* rename_case_only: local
    ret,              \* the value the current process_file call returned
    dir_before,       \* history: the directory when the current call began
    renames,          \* history: the fs::rename calls of the current call
    outcomes,         \* history: the result of each finished process_file call
    input, parts, once, twice, npc,  \* the pipeline checked on its own
    overrides,        \* the NormalizationFileConfig given to apply_overrides
    built,            \* the result of apply_overrides
    emitted,          \* normalize_base: each folded character and what it appended
    other,            \* a second process_file call running concurrently
    ext_count         \* directory changes made so far by an external actor

fvars == <<dir, caseInsensitive, has_parent, files, dry_run, idx, errors, result, pc,
           filename, normalized, target_path, temp_path, ret,
           dir_before, renames, outcomes>>

nvars == <<input, parts, once, twice, npc>>

cvars == <<overrides, built, emitted>>

xvars == <<other, ext_count>>

vars == <<fvars, nvars, cvars, xvars>>

\* fs::rename(from, to), which succeeds (ok) only when the filesystem allows it
\* and may fail for a reason outside the directory (permissions, I/O).
FsRename(from, to, ok) ==
    /\ ok => RenameAllowed(dir, caseInsensitive, from, to)
    /\ dir' = IF ok THEN RenameResult(dir, caseInsensitive, from, to) ELSE dir
    /\ renames' = Append(renames, [from |-> from, to |-> to, ok |-> ok])

\* process_file returns r to run.
Return(r) ==
    /\ ret' = r
    /\ pc' = "ret"

(***************************************************************************)
(* process_file                                                            *)
(***************************************************************************)
\* process_file_plan without the dry-run return.
process_file_plan_ignoring_dry_run(d, ci, path, dry) ==
    IF ~PathExists(d, ci, path) \/ path = DotDot
    THEN [next |-> "ret", ret |-> FileNotFound(path), filename |-> NoPath,
          normalized |-> NoPath, target_path |-> NoPath]
    ELSE LET name == path
             norm == normalize(name)
         IN  IF name = norm
             THEN [next |-> "ret", ret |-> Ok, filename |-> name,
                   normalized |-> norm, target_path |-> NoPath]
             ELSE IF to_lowercase(name) = to_lowercase(norm)
             THEN [next |-> "case_step1", ret |-> Ok, filename |-> name,
                   normalized |-> norm, target_path |-> norm]
             ELSE [next |-> "check_target", ret |-> Ok, filename |-> name,
                   normalized |-> norm, target_path |-> norm]

\* process_file from its start to its first filesystem mutation or check:
\* the stat, the file name, normalize, and the decisions taken on them.
process_file_plan(d, ci, path, dry) ==
    IF ~PathExists(d, ci, path)
    THEN [next |-> "ret", ret |-> FileNotFound(path), filename |-> NoPath,
          normalized |-> NoPath, target_path |-> NoPath]
    ELSE IF path = DotDot
    THEN [next |-> "ret", ret |-> FileNotFound(path), filename |-> NoPath,
          normalized |-> NoPath, target_path |-> NoPath]
    ELSE LET name == path
             norm == normalize(name)
         IN  IF name = norm
             THEN [next |-> "ret", ret |-> Ok, filename |-> name,
                   normalized |-> norm, target_path |-> NoPath]
             ELSE IF dry
             THEN [next |-> "ret", ret |-> Ok, filename |-> name,
                   normalized |-> norm, target_path |-> NoPath]
             ELSE IF to_lowercase(name) = to_lowercase(norm)
             THEN [next |-> "case_step1", ret |-> Ok, filename |-> name,
                   normalized |-> norm, target_path |-> norm]
             ELSE [next |-> "check_target", ret |-> Ok, filename |-> name,
                   normalized |-> norm, target_path |-> norm]

\* process_file, lines 76-109: inspect the path and decide.
process_file_inspect ==
    /\ pc = "inspect"
    /\ \E plan \in {process_file_plan(dir, caseInsensitive, files[idx], dry_run)} :
           /\ filename' = plan.filename
           /\ normalized' = plan.normalized
           /\ target_path' = IF plan.next = "ret" THEN NoPath
                             ELSE set_file_name(has_parent, plan.target_path)
           /\ temp_path' = IF plan.next = "case_step1"
                           THEN temp_name(plan.filename, plan.normalized)
                           ELSE NoPath
           /\ pc' = plan.next
           /\ ret' = IF plan.next = "ret" THEN plan.ret ELSE ret
    /\ UNCHANGED <<dir, caseInsensitive, has_parent, files, dry_run, idx, errors, result,
                   dir_before, renames, outcomes, nvars, cvars, xvars>>

\* process_file_check_target without the existence check.
process_file_check_target_unchecked ==
    /\ pc = "check_target"
    /\ pc' = "rename"
    /\ UNCHANGED <<dir, caseInsensitive, has_parent, files, dry_run, idx, errors, result,
                   filename, normalized, target_path, temp_path, ret,
                   dir_before, renames, outcomes, nvars, cvars, xvars>>

\* process_file, lines 111-113: target_path.exists().
process_file_check_target ==
    /\ pc = "check_target"
    /\ IF PathExists(dir, caseInsensitive, target_path)
       THEN Return(TargetExists(target_path))
       ELSE pc' = "rename" /\ ret' = ret
    /\ UNCHANGED <<dir, caseInsensitive, has_parent, files, dry_run, idx, errors, result,
                   filename, normalized, target_path, temp_path,
                   dir_before, renames, outcomes, nvars, cvars, xvars>>

\* process_file, lines 115-123: the direct rename.
process_file_rename ==
    /\ pc = "rename"
    /\ \E ok \in BOOLEAN :
          /\ FsRename(files[idx], target_path, ok)
          /\ Return(IF ok THEN Ok ELSE RenameError(files[idx], target_path))
    /\ UNCHANGED <<caseInsensitive, has_parent, files, dry_run, idx, errors, result,
                   filename, normalized, target_path, temp_path,
                   dir_before, outcomes, nvars, cvars, xvars>>

(***************************************************************************)
(* rename_case_only                                                        *)
(***************************************************************************)
\* Step 1: rename the source to the temporary name.
rename_case_only_step1 ==
    /\ pc = "case_step1"
    /\ \E ok \in BOOLEAN :
          /\ FsRename(files[idx], temp_path, ok)
          /\ IF ok THEN pc' = "case_step2" /\ ret' = ret
             ELSE Return(RenameError(files[idx], temp_path))
    /\ UNCHANGED <<caseInsensitive, has_parent, files, dry_run, idx, errors, result,
                   filename, normalized, target_path, temp_path,
                   dir_before, outcomes, nvars, cvars, xvars>>

\* rename_case_only_step2 renaming the temporary name back to the source
\* instead of to the target.
rename_case_only_step2_to_source ==
    /\ pc = "case_step2"
    /\ \E ok \in BOOLEAN :
          /\ FsRename(temp_path, files[idx], ok)
          /\ IF ok THEN Return(Ok)
             ELSE pc' = "case_restore" /\ ret' = ret
    /\ UNCHANGED <<caseInsensitive, has_parent, files, dry_run, idx, errors, result,
                   filename, normalized, target_path, temp_path,
                   dir_before, outcomes, nvars, cvars, xvars>>

\* Step 2: rename the temporary name to the target.
rename_case_only_step2 ==
    /\ pc = "case_step2"
    /\ \E ok \in BOOLEAN :
          /\ FsRename(temp_path, target_path, ok)
          /\ IF ok THEN Return(Ok)
             ELSE pc' = "case_restore" /\ ret' = ret
    /\ UNCHANGED <<caseInsensitive, has_parent, files, dry_run, idx, errors, result,
                   filename, normalized, target_path, temp_path,
                   dir_before, outcomes, nvars, cvars, xvars>>

\* rename_case_only_restore returning the error of step 2 without renaming
\* the temporary name back.
rename_case_only_restore_skipped ==
    /\ pc = "case_restore"
    /\ Return(RenameError(temp_path, target_path))
    /\ UNCHANGED <<dir, caseInsensitive, has_parent, files, dry_run, idx, errors, result,
                   filename, normalized, target_path, temp_path,
                   dir_before, renames, outcomes, nvars, cvars, xvars>>

\* Step 2 failed: rename the temporary name back to the source, ignore the
\* result, and return the error of step 2.
rename_case_only_restore ==
    /\ pc = "case_restore"
    /\ \E ok \in BOOLEAN : FsRename(temp_path, files[idx], ok)
    /\ Return(RenameError(temp_path, target_path))
    /\ UNCHANGED <<caseInsensitive, has_parent, files, dry_run, idx, errors, result,
                   filename, normalized, target_path, temp_path,
                   dir_before, outcomes, nvars, cvars, xvars>>

(***************************************************************************)
(* run                                                                     *)
(***************************************************************************)
\* The for loop calls process_file on the next path.
run_call ==
    /\ pc = "run"
    /\ idx <= Len(files)
    /\ pc' = "inspect"
    /\ dir_before' = dir
    /\ renames' = <<>>
    /\ filename' = NoPath
    /\ normalized' = NoPath
    /\ target_path' = NoPath
    /\ temp_path' = NoPath
    /\ UNCHANGED <<dir, caseInsensitive, has_parent, files, dry_run, idx, errors, result,
                   ret, outcomes, nvars, cvars, xvars>>

\* run_collect leaving the loop at the first error.
run_collect_abort_on_error ==
    /\ pc = "ret"
    /\ errors' = IF ret.kind # "Ok"
                 THEN Append(errors, [path |-> files[idx], error |-> ret])
                 ELSE errors
    /\ outcomes' = Append(outcomes, ret)
    /\ idx' = IF ret.kind # "Ok" THEN Len(files) + 1 ELSE idx + 1
    /\ pc' = "run"
    /\ UNCHANGED <<dir, caseInsensitive, has_parent, files, dry_run, result,
                   filename, normalized, target_path, temp_path, ret,
                   dir_before, renames, nvars, cvars, xvars>>

\* process_file returned: push its error, if any, and go on to the next path.
run_collect ==
    /\ pc = "ret"
    /\ errors' = IF ret.kind # "Ok"
                 THEN Append(errors, [path |-> files[idx], error |-> ret])
                 ELSE errors
    /\ outcomes' = Append(outcomes, ret)
    /\ idx' = idx + 1
    /\ pc' = "run"
    /\ UNCHANGED <<dir, caseInsensitive, has_parent, files, dry_run, result,
                   filename, normalized, target_path, temp_path, ret,
                   dir_before, renames, nvars, cvars, xvars>>

\* The loop is over: Ok when no error was pushed, else the errors.
run_return ==
    /\ pc = "run"
    /\ idx > Len(files)
    /\ result' = IF errors = <<>> THEN "Ok" ELSE "Err"
    /\ pc' = "finished"
    /\ UNCHANGED <<dir, caseInsensitive, has_parent, files, dry_run, idx, errors,
                   filename, normalized, target_path, temp_path, ret,
                   dir_before, renames, outcomes, nvars, cvars, xvars>>

Next ==
    \/ run_call
    \/ process_file_inspect
    \/ process_file_check_target
    \/ process_file_rename
    \/ rename_case_only_step1
    \/ rename_case_only_step2
    \/ rename_case_only_restore
    \/ run_collect
    \/ run_return

(***************************************************************************)
(* The binary: main and its own process_file                               *)
(***************************************************************************)
\* main.rs process_file from its start to its first filesystem mutation or
\* check: the stat, the is_dir test, and then the steps of lines 65-98,
\* which are those of the library's process_file.
main_process_file_plan(d, ci, path, dry) ==
    IF ~PathExists(d, ci, path)
    THEN [next |-> "ret", ret |-> FileNotFound(path), filename |-> NoPath,
          normalized |-> NoPath, target_path |-> NoPath]
    ELSE IF path \in {<<>>, DotDot} \/ \E s \in Resolve(d, ci, path) : d[s].is_dir
    THEN [next |-> "ret", ret |-> NotAFile(path), filename |-> NoPath,
          normalized |-> NoPath, target_path |-> NoPath]
    ELSE process_file_plan(d, ci, path, dry)

\* main.rs process_file, lines 56-98: inspect the path and decide.
main_process_file_inspect ==
    /\ pc = "inspect"
    /\ \E plan \in {main_process_file_plan(dir, caseInsensitive, files[idx], dry_run)} :
           /\ filename' = plan.filename
           /\ normalized' = plan.normalized
           /\ target_path' = IF plan.next = "ret" THEN NoPath
                             ELSE set_file_name(has_parent, plan.target_path)
           /\ temp_path' = IF plan.next = "case_step1"
                           THEN temp_name(plan.filename, plan.normalized)
                           ELSE NoPath
           /\ pc' = plan.next
           /\ ret' = IF plan.next = "ret" THEN plan.ret ELSE ret
    /\ UNCHANGED <<dir, caseInsensitive, has_parent, files, dry_run, idx, errors, result,
                   dir_before, renames, outcomes, nvars, cvars, xvars>>

\* main's loop calls process_file on each path, records a failure and goes on,
\* as run does; its renames are those of the library's process_file.
MainNext ==
    \/ run_call
    \/ main_process_file_inspect
    \/ process_file_check_target
    \/ process_file_rename
    \/ rename_case_only_step1
    \/ rename_case_only_step2
    \/ rename_case_only_restore
    \/ run_collect
    \/ run_return

(***************************************************************************)
(* A second process_file call on another path, running concurrently        *)
(***************************************************************************)
\* The frame of a step of the second call that leaves the directory alone.
OtherLocalStep ==
    UNCHANGED <<fvars, nvars, cvars, ext_count>>

\* The frame of a step of the second call that renames.
OtherRenameStep ==
    UNCHANGED <<caseInsensitive, has_parent, files, dry_run, idx, errors, result, pc,
                filename, normalized, target_path, temp_path, ret,
                dir_before, renames, outcomes, nvars, cvars, ext_count>>

\* fs::rename(from, to) issued by the second call.
OtherFsRename(from, to, ok) ==
    /\ ok => RenameAllowed(dir, caseInsensitive, from, to)
    /\ dir' = IF ok THEN RenameResult(dir, caseInsensitive, from, to) ELSE dir

\* process_file, lines 76-109, in the second call.
other_process_file_inspect ==
    /\ other # <<>>
    /\ other.pc = "inspect"
    /\ \E plan \in {process_file_plan(dir, caseInsensitive, other.path, dry_run)} :
           other' = [other EXCEPT
                        !.pc = plan.next,
                        !.filename = plan.filename,
                        !.normalized = plan.normalized,
                        !.target_path =
                            IF plan.next = "ret" THEN NoPath
                            ELSE set_file_name(has_parent, plan.target_path),
                        !.temp_path =
                            IF plan.next = "case_step1"
                            THEN temp_name(plan.filename, plan.normalized)
                            ELSE NoPath,
                        !.ret = IF plan.next = "ret" THEN plan.ret ELSE @]
    /\ OtherLocalStep

\* process_file, lines 111-113, in the second call.
other_process_file_check_target ==
    /\ other # <<>>
    /\ other.pc = "check_target"
    /\ other' = IF PathExists(dir, caseInsensitive, other.target_path)
                 THEN [other EXCEPT !.pc = "ret",
                                    !.ret = TargetExists(other.target_path)]
                 ELSE [other EXCEPT !.pc = "rename"]
    /\ OtherLocalStep

\* process_file, lines 115-123, in the second call.
other_process_file_rename ==
    /\ other # <<>>
    /\ other.pc = "rename"
    /\ \E ok \in BOOLEAN :
          /\ OtherFsRename(other.path, other.target_path, ok)
          /\ other' = [other EXCEPT
                          !.pc = "ret",
                          !.ret = IF ok THEN Ok
                                  ELSE RenameError(other.path, other.target_path)]
    /\ OtherRenameStep

\* rename_case_only, step 1, in the second call.
other_rename_case_only_step1 ==
    /\ other # <<>>
    /\ other.pc = "case_step1"
    /\ \E ok \in BOOLEAN :
          /\ OtherFsRename(other.path, other.temp_path, ok)
          /\ other' = IF ok THEN [other EXCEPT !.pc = "case_step2"]
                       ELSE [other EXCEPT
                                !.pc = "ret",
                                !.ret = RenameError(other.path, other.temp_path)]
    /\ OtherRenameStep

\* rename_case_only, step 2, in the second call.
other_rename_case_only_step2 ==
    /\ other # <<>>
    /\ other.pc = "case_step2"
    /\ \E ok \in BOOLEAN :
          /\ OtherFsRename(other.temp_path, other.target_path, ok)
          /\ other' = IF ok THEN [other EXCEPT !.pc = "ret", !.ret = Ok]
                       ELSE [other EXCEPT !.pc = "case_restore"]
    /\ OtherRenameStep

\* rename_case_only, the rollback, in the second call.
other_rename_case_only_restore ==
    /\ other # <<>>
    /\ other.pc = "case_restore"
    /\ \E ok \in BOOLEAN : OtherFsRename(other.temp_path, other.path, ok)
    /\ other' = [other EXCEPT
                    !.pc = "ret",
                    !.ret = RenameError(other.temp_path, other.target_path)]
    /\ OtherRenameStep

\* Two calls of process_file, their filesystem steps interleaved.
ParNext ==
    \/ Next
    \/ other_process_file_inspect
    \/ other_process_file_check_target
    \/ other_process_file_rename
    \/ other_rename_case_only_step1
    \/ other_rename_case_only_step2
    \/ other_rename_case_only_restore

(***************************************************************************)
(* An external actor changing the directory during a call                  *)
(***************************************************************************)
MaxExternal == 2

\* The names the external actor creates or removes.
ExternalNames == {<<"A", " ", "b">>, <<"a", "-", "b">>,
                  <<"A", ".", "T">>, <<"a", ".", "t">>,
                  <<"A", ".", "T">> \o FnormTmp}

\* Another process creates a file in the directory while a call is under way.
external_create ==
    /\ pc \in {"inspect", "check_target", "rename", "case_step1", "case_step2",
               "case_restore"}
    /\ ext_count < MaxExternal
    /\ \E n \in ExternalNames :
          /\ Resolve(dir, caseInsensitive, n) = {}
          /\ dir' = [m \in DOMAIN dir \cup {n} |->
                        IF m = n
                        THEN [id |-> <<"external">> \o n, is_dir |-> FALSE,
                              children |-> {}]
                        ELSE dir[m]]
    /\ ext_count' = ext_count + 1
    /\ UNCHANGED <<caseInsensitive, has_parent, files, dry_run, idx, errors, result, pc,
                   filename, normalized, target_path, temp_path, ret,
                   dir_before, renames, outcomes, nvars, cvars, other>>

\* Another process removes an entry of the directory while a call is under way.
external_remove ==
    /\ pc \in {"inspect", "check_target", "rename", "case_step1", "case_step2",
               "case_restore"}
    /\ ext_count < MaxExternal
    /\ \E n \in DOMAIN dir :
          dir' = [m \in DOMAIN dir \ {n} |-> dir[m]]
    /\ ext_count' = ext_count + 1
    /\ UNCHANGED <<caseInsensitive, has_parent, files, dry_run, idx, errors, result, pc,
                   filename, normalized, target_path, temp_path, ret,
                   dir_before, renames, outcomes, nvars, cvars, other>>

\* One call of process_file with the external actor acting between its steps.
ExternalNext ==
    \/ Next
    \/ external_create
    \/ external_remove

(***************************************************************************)
(* Initial states                                                          *)
(***************************************************************************)
\* Names of the entries a directory may start with.
NameUpper == <<"A", ".", "T">>

NameLower == <<"a", ".", "t">>

NameUpperTmp == NameUpper \o FnormTmp

NameSpaced == <<"A", " ", "b">>

NameSlug == <<"a", "-", "b">>

NameHyphens == <<"-", "-">>

NameGone == <<"g", "o", "n", "e">>

NameChild == <<"C", " ", "d">>

DirNames == {NameUpper, NameLower, NameUpperTmp, NameSpaced, NameSlug, NameHyphens}

PathNames == DirNames \cup {NameGone, DotDot}

\* The paths also given as bare file names, with no parent component.
BareNames == {NameUpper, NameSpaced, NameHyphens}

\* A file, an empty directory, a directory with one child.
EntryShapes ==
    {[is_dir |-> FALSE, children |-> {}],
     [is_dir |-> TRUE, children |-> {}],
     [is_dir |-> TRUE, children |-> {NameChild}]}

MaxEntries == 3

MaxFiles == 3

\* The directories over `names` with at most n entries, each of a shape of
\* `shapes`; an entry's identity is the name it starts with.  A case-folding
\* volume holds no two names that fold to the same name.
Directories(names, shapes, n, ci) ==
    LET stores == {S \in SUBSET names :
                     /\ Cardinality(S) <= n
                     /\ ci => \A a, b \in S : Fold(a) = Fold(b) => a = b}
    IN  UNION {{[m \in S |-> [id |-> m, is_dir |-> f[m].is_dir,
                              children |-> f[m].children]] :
                  f \in [S -> shapes]} : S \in stores}

InitLocals ==
    /\ idx = 1
    /\ errors = <<>>
    /\ result = "none"
    /\ pc = "run"
    /\ filename = NoPath
    /\ normalized = NoPath
    /\ target_path = NoPath
    /\ temp_path = NoPath
    /\ ret = Ok
    /\ dir_before = dir
    /\ renames = <<>>
    /\ outcomes = <<>>

NormIdle ==
    /\ input = <<>>
    /\ parts = <<>>
    /\ once = <<>>
    /\ twice = <<>>
    /\ npc = "idle"

\* No overrides are being applied.
ConfigIdle ==
    /\ overrides = <<>>
    /\ built = <<>>
    /\ emitted = <<>>

\* No second call and no external actor.
Alone ==
    /\ other = <<>>
    /\ ext_count = 0

\* One path, any directory.
Init ==
    /\ caseInsensitive \in BOOLEAN
    /\ dir \in Directories(DirNames, EntryShapes, MaxEntries, caseInsensitive)
    /\ has_parent \in BOOLEAN
    /\ files \in {<<p>> : p \in IF has_parent THEN PathNames ELSE BareNames}
    /\ dry_run \in BOOLEAN
    /\ InitLocals
    /\ NormIdle
    /\ ConfigIdle
    /\ Alone

Spec == Init /\ [][Next]_vars

\* The binary on one path of a directory of files and directories.
MainNames == {NameUpper, NameSpaced, NameSlug}

InitMain ==
    /\ caseInsensitive \in BOOLEAN
    /\ dir \in Directories(MainNames, EntryShapes, Cardinality(MainNames),
                           caseInsensitive)
    /\ has_parent = TRUE
    /\ files \in {<<p>> : p \in MainNames \cup {NameGone}}
    /\ dry_run \in BOOLEAN
    /\ InitLocals
    /\ NormIdle
    /\ ConfigIdle
    /\ Alone

SpecMain == InitMain /\ [][MainNext]_vars

\* Two concurrent calls on two different entries of one directory of files.
NameHashed == <<"A", "#", "b">>

ParPaths == {NameSpaced, NameHashed, NameUpper}

ParNames == ParPaths \cup {NameSlug}

InitPar ==
    /\ caseInsensitive \in BOOLEAN
    /\ dir \in Directories(ParNames, {[is_dir |-> FALSE, children |-> {}]},
                           Cardinality(ParNames), caseInsensitive)
    /\ has_parent = TRUE
    /\ files \in {<<p>> : p \in ParPaths \cap DOMAIN dir}
    /\ dry_run = FALSE
    /\ InitLocals
    /\ NormIdle
    /\ ConfigIdle
    /\ other \in {[pc |-> "inspect", path |-> p, filename |-> NoPath,
                    normalized |-> NoPath, target_path |-> NoPath,
                    temp_path |-> NoPath, ret |-> Ok] :
                      p \in (ParPaths \cap DOMAIN dir) \ {files[1]}}
    /\ ext_count = 0

SpecPar == InitPar /\ [][ParNext]_vars

\* One call on the only entry of a directory, and an external actor.
InitExternal ==
    /\ caseInsensitive \in BOOLEAN
    /\ \E p \in {NameSpaced, NameUpper} :
          /\ dir \in Directories({p}, EntryShapes, 1, caseInsensitive)
          /\ dir # <<>>
          /\ files = <<p>>
    /\ has_parent = TRUE
    /\ dry_run = FALSE
    /\ InitLocals
    /\ NormIdle
    /\ ConfigIdle
    /\ Alone

SpecExternal == InitExternal /\ [][ExternalNext]_vars

\* A batch of paths over a directory of files.
BatchNames == {NameUpper, NameSpaced, NameSlug}

BatchPaths == {NameUpper, NameSpaced, NameSlug, NameGone}

InitBatch ==
    /\ caseInsensitive \in BOOLEAN
    /\ dir \in Directories(BatchNames, {[is_dir |-> FALSE, children |-> {}]},
                           Cardinality(BatchNames), caseInsensitive)
    /\ has_parent = TRUE
    /\ files \in UNION {[1..k -> BatchPaths] : k \in 1..MaxFiles}
    /\ dry_run \in BOOLEAN
    /\ InitLocals
    /\ NormIdle
    /\ ConfigIdle
    /\ Alone

SpecBatch == InitBatch /\ [][Next]_vars

(***************************************************************************)
(* The pipeline on all strings up to a bound                               *)
(***************************************************************************)
MaxLen == 5

Alphabet == {"a", "A", ".", "-", " ", "&", "E_ACUTE"}

StringsUpTo(n) == UNION {[1..k -> Alphabet] : k \in 0..n}

FsIdle ==
    /\ caseInsensitive = FALSE
    /\ has_parent = TRUE
    /\ dir = <<>>
    /\ files = <<>>
    /\ dry_run = TRUE
    /\ InitLocals

NormInit ==
    /\ input \in StringsUpTo(MaxLen)
    /\ parts = <<>>
    /\ once = <<>>
    /\ twice = <<>>
    /\ npc = "split"
    /\ FsIdle
    /\ ConfigIdle
    /\ Alone

\* split_extension applied to the input.
Split ==
    /\ npc = "split"
    /\ parts' = split_extension(input)
    /\ npc' = "normalize"
    /\ UNCHANGED <<input, once, twice, fvars, cvars, xvars>>

\* normalize applied to the input.
Normalize ==
    /\ npc = "normalize"
    /\ once' = normalize(input)
    /\ npc' = "renormalize"
    /\ UNCHANGED <<input, parts, twice, fvars, cvars, xvars>>

\* normalize applied to its own output.
Renormalize ==
    /\ npc = "renormalize"
    /\ twice' = normalize(once)
    /\ npc' = "done"
    /\ UNCHANGED <<input, parts, once, fvars, cvars, xvars>>

NormNext == Split \/ Normalize \/ Renormalize

SpecNorm == NormInit /\ [][NormNext]_vars

(***************************************************************************)
(* A configuration built from overrides, and normalization under it        *)
(***************************************************************************)
MaxConfigLen == 2

ConfigAlphabet == {"a", "A", "&", "o_slash", "."}

\* Keys of the [special_tokens] table of an override file: of one character,
\* of two, and empty.
SpecialKeys == {<<"&">>, <<"a">>, <<"a", "b">>, <<>>}

\* Keys of the [transliterations] table of an override file.
TranslitKeys == {<<"a">>, <<"o_slash">>, <<"b", "a">>}

\* The parsed override files.
OverrideFiles ==
    [special_tokens : UNION {[K -> {<<"s">>}] : K \in SUBSET SpecialKeys},
     transliterations : UNION {[K -> {<<"t">>}] : K \in SUBSET TranslitKeys},
     lowercase : {{}, {FALSE}},
     lowercase_extension : {{}, {FALSE}}]

ConfigInit ==
    /\ overrides \in OverrideFiles
    /\ input \in UNION {[1..k -> ConfigAlphabet] : k \in 0..MaxConfigLen}
    /\ built = <<>>
    /\ emitted = <<>>
    /\ parts = <<>>
    /\ once = <<>>
    /\ twice = <<>>
    /\ npc = "apply_overrides"
    /\ FsIdle
    /\ Alone

\* from_toml_str_with_path after the parse: apply_overrides on the overrides.
ApplyOverrides ==
    /\ npc = "apply_overrides"
    /\ built' = apply_overrides(overrides)
    /\ npc' = IF built'.ok THEN "normalize_with_config" ELSE "failed"
    /\ UNCHANGED <<overrides, emitted, input, parts, once, twice, fvars, xvars>>

\* The base name normalize_base goes through, character by character.
trimmed_base(name) ==
    IF name = <<>> THEN <<>>
    ELSE trim_set(trim(split_extension(trim(name))[1]), {"."})

\* normalize_with_config on the input under the configuration that was built.
NormalizeWithConfig ==
    /\ npc = "normalize_with_config"
    /\ once' = normalize_with_config(input, built.config)
    /\ emitted' = emissions(trimmed_base(input), built.config)
    /\ npc' = "done"
    /\ UNCHANGED <<overrides, built, input, parts, twice, fvars, xvars>>

ConfigNext == ApplyOverrides \/ NormalizeWithConfig

SpecConfig == ConfigInit /\ [][ConfigNext]_vars

(***************************************************************************)
(* Properties of process_file, rename_case_only and run                    *)
(***************************************************************************)
\* A process_file call is under way or has just returned.
InCall ==
    pc \in {"inspect", "check_target", "rename", "case_step1", "case_step2",
            "case_restore", "ret"}

\* The stored name of the entry the current call was asked to rename.
Subject == Resolve(dir_before, caseInsensitive, files[idx])

\* The current call took the case-only path.
CaseOnlyTaken ==
    /\ ~dry_run
    /\ filename # NoPath
    /\ filename # normalized
    /\ to_lowercase(filename) = to_lowercase(normalized)

\* C1: a non-dry-run process_file never overwrites or destroys an entry other
\* than the one it renames: every other entry the directory held when the
\* call began is still stored under its name, unchanged, at every step.
C1_NoOtherEntryDestroyed ==
    (InCall /\ ~dry_run) =>
        \A n \in DOMAIN dir_before \ Subject :
            n \in DOMAIN dir /\ dir[n] = dir_before[n]

\* C2: on the regular-rename path, when the target exists at the check,
\* process_file returns TargetExists with the target path and the directory
\* is exactly as it was when the call began; no rename was issued.
C2_TargetExistsNoMutation ==
    [][(pc = "check_target" /\ PathExists(dir, caseInsensitive, target_path))
         => /\ pc' = "ret"
            /\ ret' = TargetExists(target_path)
            /\ dir' = dir_before
            /\ renames' = <<>>]_vars

C2_Witness ==
    /\ pc = "ret"
    /\ ret = TargetExists(NameSlug)
    /\ files[idx] = NameSpaced
    /\ {NameSpaced, NameSlug} \subseteq DOMAIN dir
    /\ dir = dir_before

\* C3 as stated: with dry_run the directory never changes, no rename is
\* issued, and the call succeeds whenever the path exists.
C3_DryRunSucceedsWheneverPathExists ==
    dry_run =>
        /\ dir = dir_before
        /\ renames = <<>>
        /\ (pc = "ret" /\ PathExists(dir_before, caseInsensitive, files[idx]))
              => ret = Ok

\* C3 as amended: with dry_run the directory never changes, no rename is
\* issued, and the call succeeds whenever the path exists and has a file-name
\* component (a path that ends in ".." exists and is answered FileNotFound).
C3_DryRunFrame ==
    dry_run =>
        /\ dir = dir_before
        /\ renames = <<>>
        /\ (pc = "ret" /\ PathExists(dir_before, caseInsensitive, files[idx])
              /\ files[idx] # DotDot)
              => ret = Ok
        /\ (pc = "ret" /\ files[idx] = DotDot) => ret = FileNotFound(DotDot)

C3_Witness ==
    /\ dry_run
    /\ pc = "ret"
    /\ ret = Ok
    /\ filename \in DOMAIN dir
    /\ filename # normalized

\* C4: when the case-only path is taken and both renames succeed, the entry is
\* stored under the normalized name and under no other name, and neither the
\* original name nor "<original>.fnorm-tmp" is a stored name.
C4_CaseOnlySuccess ==
    (pc = "ret" /\ ret = Ok /\ CaseOnlyTaken) =>
        /\ normalized \in DOMAIN dir
        /\ \A s \in Subject :
              /\ dir[normalized] = dir_before[s]
              /\ \A n \in DOMAIN dir : dir[n].id = dir_before[s].id => n = normalized
        /\ filename \notin DOMAIN dir
        /\ (filename \o FnormTmp) \notin DOMAIN dir

C4_Witness ==
    /\ pc = "ret"
    /\ ret = Ok
    /\ CaseOnlyTaken
    /\ caseInsensitive
    /\ Len(renames) = 2
    /\ files[idx] = NameUpper
    /\ NameLower \in DOMAIN dir

\* The RunError entries a sequence of results gives: one per failed path, in
\* input order.
FailuresOf(outs) ==
    SelectSeq([i \in 1..Len(outs) |-> [path |-> files[i], error |-> outs[i]]],
              LAMBDA e : e.error.kind # "Ok")

\* C5: run calls process_file on every path in order whatever the earlier
\* results; its errors are exactly the failed paths in input order, each with
\* its own error (FileNotFound for a path that does not exist), and it returns
\* Ok exactly when no path failed.
C5_BatchCollectsEveryFailure ==
    /\ pc = "finished" =>
          /\ Len(outcomes) = Len(files)
          /\ errors = FailuresOf(outcomes)
          /\ (result = "Ok") <=> (\A i \in 1..Len(outcomes) : outcomes[i] = Ok)
    /\ (pc = "ret" /\ ~PathExists(dir_before, caseInsensitive, files[idx]))
          => ret = FileNotFound(files[idx])
    /\ pc # "finished" => result = "none"

C5_Witness ==
    /\ pc = "finished"
    /\ files = <<NameSpaced, NameGone, NameUpper>>
    /\ result = "Err"
    /\ errors = <<[path |-> NameGone, error |-> FileNotFound(NameGone)]>>
    /\ DOMAIN dir = {NameSlug, NameLower}

(***************************************************************************)
(* Properties of the pipeline                                              *)
(***************************************************************************)
\* normalize has been applied to the input.
Normalized == npc \in {"renormalize", "done"}

\* C6: normalize is idempotent: normalize(normalize(s)) = normalize(s).
C6_Idempotent == npc = "done" => twice = once

\* C7: the output of normalize never contains two consecutive hyphens.
C7_NoDoubleHyphen ==
    Normalized => \A i \in 1..(Len(once) - 1) : ~(once[i] = "-" /\ once[i + 1] = "-")

\* C8: the output of normalize never starts with a hyphen.
C8_NoLeadingHyphen == Normalized => (once = <<>> \/ once[1] # "-")

\* A hidden file whose remainder after the dot starts with a hyphen.
C8_Witness ==
    /\ Normalized
    /\ Len(input) >= 2 /\ input[1] = "." /\ input[2] = "-"
    /\ Len(once) >= 2 /\ once[1] = "." /\ once[2] = "-"

\* C9: the output of normalize holds no non-ASCII character, no upper-case
\* letter and no space.
C9_AsciiLowercaseSlug ==
    Normalized =>
        \A i \in 1..Len(once) :
            IsAscii(once[i]) /\ once[i] \notin AsciiUpper /\ once[i] # " "

\* C10: split_extension splits at the last dot: no dot gives (name, ""); a
\* last dot that is the first character gives ("", the rest); a last dot that
\* is the final character gives (the text before it, ""); otherwise (the text
\* before the last dot, the text after it).  The extension holds no dot.
C10_SplitAtLastDot ==
    npc # "split" =>
        LET n == Len(input)
            dots == {i \in 1..n : input[i] = "."}
            last == CHOOSE i \in dots : \A j \in dots : j <= i
        IN  /\ IF dots = {} THEN parts = <<input, <<>>>>
               ELSE IF last = 1 THEN parts = <<<<>>, SubSeq(input, 2, n)>>
               ELSE IF last = n THEN parts = <<SubSeq(input, 1, n - 1), <<>>>>
               ELSE parts = <<SubSeq(input, 1, last - 1), SubSeq(input, last + 1, n)>>
            /\ \A i \in 1..Len(parts[2]) : parts[2][i] # "."
            /\ input = <<>> => parts = <<<<>>, <<>>>>

\* Several dots, a two-byte character before the last dot, the last dot inside.
C10_Witness ==
    /\ npc # "split"
    /\ Len(input) = 5
    /\ input[1] = "E_ACUTE" /\ input[2] = "." /\ input[4] = "." /\ input[5] = "a"
    /\ parts = <<SubSeq(input, 1, 3), <<"a">>>>

\* The stored names under which the entry the current call renames is found.
SubjectNames ==
    {n \in DOMAIN dir : \E s \in Subject : dir[n].id = dir_before[s].id}

\* C15: on the case-only path, when step 1 succeeded and step 2 failed, the
\* rollback rename of the temporary name to the original name is issued
\* before the call returns, and the call returns RenameError{from: temporary
\* name, to: target} whatever the rollback did; when the rollback succeeded
\* the entry is back under the original name and nothing is left under the
\* temporary name.
C15_RollbackAfterFailedStep2 ==
    (/\ pc = "ret"
     /\ Len(renames) >= 2
     /\ renames[1].to = temp_path /\ renames[1].ok
     /\ ~renames[2].ok)
    => /\ Len(renames) = 3
       /\ renames[2] = [from |-> temp_path, to |-> target_path, ok |-> FALSE]
       /\ renames[3].from = temp_path
       /\ renames[3].to = files[idx]
       /\ ret = RenameError(temp_path, target_path)
       /\ renames[3].ok =>
             /\ SubjectNames = {files[idx]}
             /\ \A s \in Subject : dir[files[idx]] = dir_before[s]
             /\ Resolve(dir, caseInsensitive, temp_path) = {}

C15_Witness ==
    /\ pc = "ret"
    /\ files[idx] = NameUpper
    /\ Len(renames) = 3
    /\ renames[1].ok /\ ~renames[2].ok /\ renames[3].ok
    /\ ret = RenameError(NameUpperTmp, NameLower)
    /\ NameUpper \in DOMAIN dir
    /\ NameUpperTmp \notin DOMAIN dir

\* C17: with no concurrent actor, at every step of a process_file call on an
\* existing entry, and when it has returned (a failed rollback included),
\* the entry is stored under exactly one name, and that name is the original
\* name, the original name followed by ".fnorm-tmp", or the normalized name.
C17_EntryUnderExactlyOneName ==
    (InCall /\ Subject # {} /\ files[idx] # DotDot) =>
        \E n \in Subject \cup {files[idx], files[idx] \o FnormTmp, normalized} :
            SubjectNames = {n}

C17_Witness ==
    /\ pc = "ret"
    /\ files[idx] = NameUpper
    /\ Len(renames) = 3
    /\ renames[1].ok /\ ~renames[2].ok /\ ~renames[3].ok
    /\ SubjectNames = {NameUpperTmp}

\* C18 as stated: for an existing entry whose name normalizes to the empty
\* string, a non-dry-run process_file changes nothing and returns
\* TargetExists.
C18_EmptyNameGivesTargetExists ==
    (/\ pc = "ret" /\ ~dry_run /\ Subject # {}
     /\ files[idx] # DotDot /\ normalized = <<>>)
    => /\ ret.kind = "TargetExists"
       /\ dir = dir_before
       /\ \A i \in DOMAIN renames : ~renames[i].ok

\* C18, amended: for an existing entry whose name normalizes to the empty
\* string, a non-dry-run process_file never renames the entry and returns an
\* error: TargetExists naming the parent directory when the path has a
\* parent component, and RenameError with the empty path as target when the
\* path is a bare file name.
C18_EmptyNameNeverRenames ==
    (/\ pc = "ret" /\ ~dry_run /\ Subject # {}
     /\ files[idx] # DotDot /\ normalized = <<>>)
    => /\ dir = dir_before
       /\ \A i \in DOMAIN renames : ~renames[i].ok
       /\ ret = IF has_parent THEN TargetExists(<<>>)
                ELSE RenameError(files[idx], EmptyPath)

C18_Witness ==
    /\ pc = "ret" /\ ~dry_run
    /\ files[idx] = NameHyphens
    /\ NameHyphens \in DOMAIN dir
    /\ ~has_parent
    /\ normalized = <<>>
    /\ ret = RenameError(NameHyphens, EmptyPath)

\* C14: process_file accepts a path that names a directory and treats it as
\* it treats a file: a dry run succeeds and changes nothing, a successful
\* call that is no dry run leaves the directory entry stored under the
\* normalized name, and no
\* call returns an error for the entry being a directory; after the call
\* every stored entry is one of the entries stored before it, with the same
\* children.
C14_DirectoryRenamedAsFile ==
    (pc = "ret" /\ Subject # {} /\ \A s \in Subject : dir_before[s].is_dir)
    => /\ ret.kind \in {"Ok", "TargetExists", "RenameError"}
       /\ dry_run => ret = Ok /\ dir = dir_before
       /\ (ret = Ok /\ ~dry_run) =>
             \E n \in Resolve(dir, caseInsensitive, normalized) :
                 \A s \in Subject : dir[n] = dir_before[s]
       /\ \A n \in DOMAIN dir : \E m \in DOMAIN dir_before : dir[n] = dir_before[m]

(***************************************************************************)
(* Properties of apply_overrides and of the classification of characters  *)
(***************************************************************************)
\* The keys of a section of the overrides that are not exactly one character.
InvalidKeys(section) == {k \in DOMAIN overrides[section] : Len(k) # 1}

\* C13: building a configuration from overrides fails exactly when some key
\* of special_tokens or of transliterations is not exactly one character;
\* the failure is InvalidKey naming a section and one of its offending keys,
\* it carries no configuration, and no normalization runs after it.  When
\* it succeeds, every override is in the table of its section.
C13_InvalidKeyExactlyWhenNotOneChar ==
    (npc \in {"normalize_with_config", "failed", "done"}) =>
        /\ built.ok <=> (InvalidKeys("special_tokens") = {}
                          /\ InvalidKeys("transliterations") = {})
        /\ ~built.ok =>
              /\ DOMAIN built = {"ok", "section", "key"}
              /\ built.section \in {"special_tokens", "transliterations"}
              /\ built.key \in InvalidKeys(built.section)
              /\ npc = "failed" /\ emitted = <<>> /\ once = <<>>
        /\ built.ok =>
              \A section \in {"special_tokens", "transliterations"} :
                  \A k \in DOMAIN overrides[section] :
                      /\ k[1] \in DOMAIN built.config[section]
                      /\ built.config[section][k[1]] = overrides[section][k]

C13_Witness ==
    /\ npc = "failed"
    /\ DOMAIN overrides.special_tokens = {<<"&">>, <<"a">>}
    /\ DOMAIN overrides.transliterations = {<<"a">>, <<"b", "a">>}
    /\ built = InvalidKey("transliterations", <<"b", "a">>)

StoredAs(name) == {n \in DOMAIN dir : dir[n].id = name}

\* C11: two concurrent process_file calls on two different entries of one
\* directory are safe under every interleaving of their steps: neither
\* entry is ever lost or overwritten, a call that returned Ok has its entry
\* stored under the normalized name, and a call that returned an error has
\* its entry stored under the original or the temporary name.
C11_ConcurrentCallsKeepBothEntries ==
    (other # <<>>) =>
        /\ StoredAs(files[1]) # {}
        /\ StoredAs(other.path) # {}
        /\ pc = "ret" =>
              StoredAs(files[1]) \subseteq
                  IF ret = Ok THEN {normalized}
                  ELSE {files[1], files[1] \o FnormTmp}
        /\ other.pc = "ret" =>
              StoredAs(other.path) \subseteq
                  IF other.ret = Ok THEN {other.normalized}
                  ELSE {other.path, other.path \o FnormTmp}

\* C12: when an external actor changes the directory between the steps of
\* a process_file call, no rename of the call destroys an entry: every entry
\* stored before a rename of the call is still stored after it, unchanged,
\* under some name.
C12_NoEntryDestroyedUnderExternalChange ==
    [][(dir' # dir /\ ext_count' = ext_count)
         => \A n \in DOMAIN dir : \E m \in DOMAIN dir' : dir'[m] = dir[n]]_vars

====
